---- MODULE Spec2Model ----
(***************************************************************************)
(* Model of the ST7789V panel driver fb_st7789v.c (fbtft).  The driver is  *)
(* a set of callbacks (init_display, set_var, set_gamma, blank) that the   *)
(* fbtft host framework invokes one at a time on a device context `par`.   *)
(* Every callback talks to the panel through three host services: the      *)
(* reset line, mdelay and write_reg.  The model records every use of a     *)
(* host service, in order, in `trace`.                                     *)
(***************************************************************************)
EXTENDS Integers, Sequences, FiniteSets, TLC

VARIABLES
    trace,   \* the host services used so far, in order (reset, mdelay, write_reg)
    calls,   \* the callbacks invoked so far: op, argument, return value, trace span
    rotate,  \* par->info->var.rotate
    bgr,     \* par->bgr
    xres,    \* par->info->var.xres
    yres,    \* par->info->var.yres
    gamma,   \* par->gamma : num_curves, num_values
    curves   \* par->gamma.curves, the caller's gamma buffer (<<>> is NULL)

vars == <<trace, calls, rotate, bgr, xres, yres, gamma, curves>>

ctx == <<rotate, bgr, xres, yres, gamma, curves>>

(***************************************************************************)
(* Bounds of the model.                                                    *)
(***************************************************************************)
MaxCalls == 3     \* callbacks invoked in one behaviour

\* rotation requests the host may make: the four supported angles and two others
Rotations == {0, 90, 180, 270, 45, 360}

\* values a caller may leave in the gamma buffer (u32)
GammaVals == {\h00, \h3F, \h40, \h88, \hFF, \h100, \h7FFFFFFF}

(***************************************************************************)
(* Integer helpers: C's bit operators on non-negative integers.            *)
(***************************************************************************)
RECURSIVE BitAnd(_, _)
BitAnd(a, b) ==
    IF a = 0 \/ b = 0 THEN 0
    ELSE (a % 2) * (b % 2) + 2 * BitAnd(a \div 2, b \div 2)

RECURSIVE BitOr(_, _)
BitOr(a, b) ==
    IF a = 0 THEN b
    ELSE IF b = 0 THEN a
    ELSE (IF a % 2 = 1 \/ b % 2 = 1 THEN 1 ELSE 0) + 2 * BitOr(a \div 2, b \div 2)

BIT(n) == 2 ^ n

Last(s) == s[Len(s)]

(***************************************************************************)
(* Commands and bit masks.                                                 *)
(***************************************************************************)
PVGAMCTRL == \hE0
NVGAMCTRL == \hE1

MADCTL_BGR == BIT(3)
MADCTL_MV  == BIT(5)
MADCTL_MX  == BIT(6)
MADCTL_MY  == BIT(7)

MIPI_DCS_SET_ADDRESS_MODE == \h36
MIPI_DCS_SET_DISPLAY_OFF  == \h28
MIPI_DCS_SET_DISPLAY_ON   == \h29

EINVAL == 22

(***************************************************************************)
(* The panel descriptor.  set_gamma and the gamma text are commented out   *)
(* in the source, and gamma_num = gamma_len = 0.                           *)
(***************************************************************************)
HSD20_IPS_GAMMA ==
    << \hD0, \h05, \h0A, \h09, \h08, \h05, \h2E, \h44, \h45, \h0F, \h17, \h16, \h2B, \h33,
       \hD0, \h05, \h0A, \h09, \h08, \h05, \h2E, \h43, \h45, \h0F, \h16, \h16, \h2B, \h33 >>

\* the descriptor with the gamma lines in use: two curves of fourteen values
display_gamma_enabled ==
    [ regwidth  |-> 8,
      width     |-> 240,
      height    |-> 280,
      buswidth  |-> 8,
      gamma_num |-> 2,
      gamma_len |-> 14,
      gamma     |-> HSD20_IPS_GAMMA,
      fbtftops  |-> {"init_display", "set_var", "set_gamma", "blank"} ]

display ==
    [ regwidth  |-> 8,
      width     |-> 240,
      height    |-> 280,
      buswidth  |-> 8,
      gamma_num |-> 0,
      gamma_len |-> 0,
      gamma     |-> << >>,
      fbtftops  |-> {"init_display", "set_var", "blank"} ]

(***************************************************************************)
(* Host services.  A register write is one command byte followed by its    *)
(* parameter bytes: every argument is stored in a regwidth-bit register    *)
(* word, so an argument that does not fit loses its high bits.             *)
(***************************************************************************)
reset == [ev |-> "reset"]

mdelay(ms) == [ev |-> "mdelay", ms |-> ms]

write_reg(cmd, args) ==
    [ ev  |-> "write_reg",
      cmd |-> cmd % (2 ^ display.regwidth),
      par |-> [i \in 1..Len(args) |-> args[i] % (2 ^ display.regwidth)] ]

(***************************************************************************)
(* init_display(): reset, settle, then the fixed register sequence.        *)
(***************************************************************************)
init_reset ==
    << reset,
       mdelay(50) >>

init_registers ==
    << write_reg(\h36, << \h00 >>),
       write_reg(\h3A, << \h05 >>),
       write_reg(\hB2, << \h0B, \h0B, \h00, \h33, \h35 >>),
       write_reg(\hB7, << \h11 >>),
       write_reg(\hBB, << \h35 >>),
       write_reg(\hC0, << \h2C >>),
       write_reg(\hC2, << \h01 >>),
       write_reg(\hC3, << \h0D >>),
       write_reg(\hC4, << \h20 >>),
       write_reg(\hC6, << \h13 >>),
       write_reg(\hD0, << \hA4, \hA1 >>),
       write_reg(\hE0, << \hF0, \h06, \h0B, \h0A, \h09, \h26, \h29,
                          \h33, \h41, \h18, \h16, \h15, \h29, \h2D >>),
       write_reg(\hE1, << \hF0, \h04, \h08, \h08, \h07, \h03, \h28,
                          \h32, \h40, \h3B, \h19, \h18, \h2A, \h2E >>),
       write_reg(\hE4, << \h25, \h00, \h00 >>) >>

\* display-on issued before sleep-out
init_wakeup_on_first ==
    << write_reg(\h21, << >>),
       write_reg(\h29, << >>),
       mdelay(120),
       write_reg(\h11, << >>),
       mdelay(200) >>

\* the wait after sleep-out left out
init_wakeup_no_wait ==
    << write_reg(\h21, << >>),
       write_reg(\h11, << >>),
       write_reg(\h29, << >>),
       mdelay(200) >>

init_wakeup ==
    << write_reg(\h21, << >>),
       write_reg(\h11, << >>),
       mdelay(120),
       write_reg(\h29, << >>),
       mdelay(200) >>

init_display_seq == init_reset \o init_registers \o init_wakeup

init_display_ret == 0

(***************************************************************************)
(* set_var(): the addressing-mode byte and the window of a rotation.       *)
(***************************************************************************)
\* the colour-order flag never applied
madctl_bgr_ignored(b) == 0

\* if (par->bgr) madctl_par |= MADCTL_BGR;
madctl_bgr(b) == IF b THEN BitOr(0, MADCTL_BGR) ELSE 0

\* the cases of switch (info->var.rotate); the default case returns -EINVAL
rotate_supported(rot) == rot \in {0, 90, 180, 270}

\* the landscape case assigns the byte instead of OR-ing into it
madctl_rotate_assign(rot, m) ==
    CASE rot = 0   -> m
      [] rot = 90  -> BitOr(MADCTL_MV, MADCTL_MY)
      [] rot = 180 -> BitOr(m, BitOr(MADCTL_MX, MADCTL_MY))
      [] rot = 270 -> BitOr(m, BitOr(MADCTL_MV, MADCTL_MX))

\* madctl_par |= ... of the case taken
madctl_rotate(rot, m) ==
    CASE rot = 0   -> m
      [] rot = 90  -> BitOr(m, BitOr(MADCTL_MV, MADCTL_MY))
      [] rot = 180 -> BitOr(m, BitOr(MADCTL_MX, MADCTL_MY))
      [] rot = 270 -> BitOr(m, BitOr(MADCTL_MV, MADCTL_MX))

\* 270 degrees given the column offset of 90 degrees
xoffset_of_like90(rot) ==
    CASE rot = 0   -> 0
      [] rot = 90  -> 20
      [] rot = 180 -> 0
      [] rot = 270 -> 20

xoffset_of(rot) ==
    CASE rot = 0   -> 0
      [] rot = 90  -> 20
      [] rot = 180 -> 0
      [] rot = 270 -> 0

yoffset_of(rot) ==
    CASE rot = 0   -> 20
      [] rot = 90  -> 0
      [] rot = 180 -> 0
      [] rot = 270 -> 20

\* the three writes after the switch: MADCTL, CASET, RASET; each end coordinate
\* is passed as one argument (the sums stay far below 2^32, so none wraps)
set_var_writes(rot, b, xr, yr) ==
    << write_reg(MIPI_DCS_SET_ADDRESS_MODE, << madctl_rotate(rot, madctl_bgr(b)) >>),
       write_reg(\h2A, << \h00, xoffset_of(rot), \h00, xoffset_of(rot) + xr - 1 >>),
       write_reg(\h2B, << \h00, yoffset_of(rot), \h00, yoffset_of(rot) + yr - 1 >>) >>

\* the addressing mode written before the rotation is looked at
set_var_events_early(rot, b, xr, yr) ==
    IF rotate_supported(rot) THEN set_var_writes(rot, b, xr, yr)
    ELSE << write_reg(MIPI_DCS_SET_ADDRESS_MODE, << madctl_bgr(b) >>) >>

set_var_events(rot, b, xr, yr) ==
    IF rotate_supported(rot) THEN set_var_writes(rot, b, xr, yr) ELSE << >>

set_var_ret(rot) == IF rotate_supported(rot) THEN 0 ELSE -EINVAL

(***************************************************************************)
(* set_gamma(): mask every value of every curve in place, write the curve. *)
(***************************************************************************)
gamma_par_mask ==
    << \hFF, \h3F, \h3F, \h1F, \h1F, \h3F, \h7F,
       \h77, \h7F, \h3F, \h1F, \h1F, \h3F, \h3F >>

\* the loop stopping one value early: j < num_values - 1
mask_curve_short(buf, c, n) ==
    [k \in 1..Len(buf) |->
        IF k - 1 >= c /\ k - 1 < c + n - 1
        THEN BitAnd(buf[k], gamma_par_mask[k - c])
        ELSE buf[k]]

\* for (j = 0; j < num_values; j++) curves[c + j] &= gamma_par_mask[j];
\* (the buffer is 1-based here: curves[c + j] of the source is buf[c + j + 1])
mask_curve(buf, c, n) ==
    [k \in 1..Len(buf) |->
        IF k - 1 >= c /\ k - 1 < c + n
        THEN BitAnd(buf[k], gamma_par_mask[k - c])
        ELSE buf[k]]

\* write_reg(par, PVGAMCTRL + i, curves[c + 0], ..., curves[c + 13]);
gamma_write(buf, i, c) ==
    write_reg(PVGAMCTRL + i, [j \in 1..14 |-> buf[c + j]])

\* for (i = 0; i < par->gamma.num_curves; i++) { ... }
RECURSIVE set_gamma_loop(_, _, _)
set_gamma_loop(buf, i, g) ==
    IF i >= g.num_curves
    THEN [buf |-> buf, events |-> << >>]
    ELSE LET c    == i * g.num_values
             b1   == mask_curve(buf, c, g.num_values)
             rest == set_gamma_loop(b1, i + 1, g)
         IN  [buf |-> rest.buf, events |-> << gamma_write(b1, i, c) >> \o rest.events]

(***************************************************************************)
(* blank(): display off or display on.                                     *)
(***************************************************************************)
\* the two branches exchanged
blank_events_inverted(on) ==
    IF on THEN << write_reg(MIPI_DCS_SET_DISPLAY_ON, << >>) >>
          ELSE << write_reg(MIPI_DCS_SET_DISPLAY_OFF, << >>) >>

blank_events(on) ==
    IF on THEN << write_reg(MIPI_DCS_SET_DISPLAY_OFF, << >>) >>
          ELSE << write_reg(MIPI_DCS_SET_DISPLAY_ON, << >>) >>

blank_ret == 0

(***************************************************************************)
(* The callbacks as actions.  Each appends what it emits to the trace and  *)
(* a record of itself to calls: events from+1 .. to of the trace are its.  *)
(***************************************************************************)
Called(op, arg, ret, events) ==
    /\ Len(calls) < MaxCalls
    /\ trace' = trace \o events
    /\ calls' = Append(calls, [op |-> op, arg |-> arg, ret |-> ret,
                               from |-> Len(trace), to |-> Len(trace) + Len(events)])

init_display ==
    /\ Called("init_display", << >>, init_display_ret, init_display_seq)
    /\ UNCHANGED ctx

set_var ==
    /\ Called("set_var", <<rotate, bgr, xres, yres>>, set_var_ret(rotate),
              set_var_events(rotate, bgr, xres, yres))
    /\ UNCHANGED ctx

set_gamma ==
    LET r == set_gamma_loop(curves, 0, gamma)
    IN  /\ Called("set_gamma", curves, 0, r.events)
        /\ curves' = r.buf
        /\ UNCHANGED <<rotate, bgr, xres, yres, gamma>>

blank(on) ==
    /\ Called("blank", <<on>>, blank_ret, blank_events(on))
    /\ UNCHANGED ctx

(***************************************************************************)
(* The host framework.  It owns the device context: a mode change stores   *)
(* the requested rotation and colour order, and the resolution of the      *)
(* 240 x 280 panel as seen at that rotation.  It invokes the callbacks     *)
(* the descriptor registers, one at a time; the gamma callback only when   *)
(* the descriptor enables gamma (a gamma buffer exists).                   *)
(***************************************************************************)
HostModeChange ==
    \E r \in Rotations, b \in BOOLEAN :
        /\ <<r, b>> # <<rotate, bgr>>
        /\ rotate' = r
        /\ bgr' = b
        /\ xres' = IF r \in {90, 270} THEN display.height ELSE display.width
        /\ yres' = IF r \in {90, 270} THEN display.width ELSE display.height
        /\ UNCHANGED <<trace, calls, gamma, curves>>

Invoke(op) ==
    CASE op = "init_display" -> init_display
      [] op = "set_var"      -> set_var
      [] op = "blank"        -> \E on \in BOOLEAN : blank(on)
      [] op = "set_gamma"    -> curves # << >> /\ set_gamma

HostCall == \E op \in display.fbtftops : Invoke(op)

Init ==
    /\ trace = << >>
    /\ calls = << >>
    /\ rotate = 0
    /\ bgr = FALSE
    /\ xres = display.width
    /\ yres = display.height
    /\ gamma = [num_curves |-> display.gamma_num, num_values |-> display.gamma_len]
    /\ curves = display.gamma

Next == HostModeChange \/ HostCall

Spec == Init /\ [][Next]_vars

(***************************************************************************)
(* A gamma configuration of two curves of fourteen values: the caller      *)
(* hands set_gamma a buffer of 28 values.                                  *)
(***************************************************************************)
GammaBuffers ==
    { [k \in 1..28 |-> IF k = p THEN w ELSE v] :
        p \in 1..28, v \in GammaVals, w \in GammaVals }

InitGamma ==
    /\ trace = << >>
    /\ calls = << >>
    /\ rotate = 0
    /\ bgr = FALSE
    /\ xres = display.width
    /\ yres = display.height
    /\ gamma = [num_curves |-> 2, num_values |-> 14]
    /\ curves \in GammaBuffers

NextGamma == set_gamma

SpecGamma == InitGamma /\ [][NextGamma]_vars

(***************************************************************************)
(* Reading the trace.                                                      *)
(***************************************************************************)
CallEvents(c) == SubSeq(trace, c.from + 1, c.to)

IsWrite(e) == e.ev = "write_reg"

Bit(v, n) == (v \div (2 ^ n)) % 2

\* two parameter bytes read as one big-endian 16-bit value
BE16(hi, lo) == 256 * hi + lo

SetVarCalls == { n \in 1..Len(calls) : calls[n].op = "set_var" }

SupportedSetVarCalls == { n \in SetVarCalls : calls[n].arg[1] \in {0, 90, 180, 270} }

(***************************************************************************)
(* C1.  For each supported rotation, set_var writes the addressing-mode    *)
(* byte and the window start offsets of the fixed table:                   *)
(*   0: no MV/MX/MY, x 0, y 20;    90: MV and MY, x 20, y 0;               *)
(* 180: MX and MY, x 0, y 0;      270: MV and MX, x 0, y 20;               *)
(* the byte goes out with command 0x36 and the offsets as the start        *)
(* parameters of the 0x2A and 0x2B writes.                                 *)
(***************************************************************************)
RotationTable ==
    [r \in {0, 90, 180, 270} |->
        CASE r = 0   -> [mv |-> 0, mx |-> 0, my |-> 0, xoffset |-> 0,  yoffset |-> 20]
          [] r = 90  -> [mv |-> 1, mx |-> 0, my |-> 1, xoffset |-> 20, yoffset |-> 0]
          [] r = 180 -> [mv |-> 0, mx |-> 1, my |-> 1, xoffset |-> 0,  yoffset |-> 0]
          [] r = 270 -> [mv |-> 1, mx |-> 1, my |-> 0, xoffset |-> 0,  yoffset |-> 20]]

C2_RejectsWithoutWrites ==
    [][ ( /\ Len(calls') = Len(calls) + 1
          /\ Last(calls').op = "set_var"
          /\ rotate \notin {0, 90, 180, 270} )
        => ( /\ trace' = trace
             /\ Last(calls').ret = -22 ) ]_vars

C2_Witness ==
    /\ \E n \in SetVarCalls \ SupportedSetVarCalls :
            calls[n].ret # 0 /\ calls[n].arg[2] = TRUE
    /\ \E n \in SetVarCalls \ SupportedSetVarCalls :
            calls[n].ret # 0 /\ calls[n].arg[2] = FALSE

(***************************************************************************)
(* C3.  For every supported rotation, bit 3 (BGR) of the addressing-mode   *)
(* byte set_var writes is set exactly when par->bgr is set, and the flag   *)
(* changes nothing else: with the flag flipped, the other seven bits of    *)
(* the byte and both window writes are the same.                           *)
(***************************************************************************)
C3_BgrBitOnly ==
    \A n \in SupportedSetVarCalls :
        LET c == calls[n]
            e == CallEvents(c)
            o == set_var_events(c.arg[1], ~c.arg[2], c.arg[3], c.arg[4])
        IN  /\ Bit(e[1].par[1], 3) = (IF c.arg[2] THEN 1 ELSE 0)
            /\ Bit(o[1].par[1], 3) = (IF c.arg[2] THEN 0 ELSE 1)
            /\ \A k \in (0..7) \ {3} : Bit(e[1].par[1], k) = Bit(o[1].par[1], k)
            /\ e[2] = o[2]
            /\ e[3] = o[3]

C3_Witness ==
    /\ \E n \in SupportedSetVarCalls : calls[n].arg[1] = 90 /\ calls[n].arg[2] = TRUE
    /\ \E n \in SupportedSetVarCalls : calls[n].arg[1] = 180 /\ calls[n].arg[2] = FALSE

(***************************************************************************)
(* C4.  For every supported rotation with the panel's geometry, the four   *)
(* parameter bytes of the 0x2A write, read as two big-endian 16-bit        *)
(* values, are xoffset and xoffset + xres - 1, and those of the 0x2B write *)
(* are yoffset and yoffset + yres - 1: no end coordinate above 255 is      *)
(* lost.                                                                   *)
(***************************************************************************)
C4_WindowRanges ==
    \A n \in SupportedSetVarCalls :
        LET c    == calls[n]
            e    == CallEvents(c)
            t    == RotationTable[c.arg[1]]
        IN  /\ BE16(e[2].par[1], e[2].par[2]) = t.xoffset
            /\ BE16(e[2].par[3], e[2].par[4]) = t.xoffset + c.arg[3] - 1
            /\ BE16(e[3].par[1], e[3].par[2]) = t.yoffset
            /\ BE16(e[3].par[3], e[3].par[4]) = t.yoffset + c.arg[4] - 1

(***************************************************************************)
(* C5.  With two curves of fourteen values and any buffer of 28 values,    *)
(* set_gamma emits exactly two writes, 0xE0 then 0xE1, of 14 parameters    *)
(* each; parameter j of curve i is the bitwise AND of curves[14*i + j] and *)
(* gamma_par_mask[j]; it returns 0 and leaves the masked values in the     *)
(* buffer.                                                                 *)
(***************************************************************************)
\* v is the bitwise AND of a and m, bit by bit
IsAndOf(v, a, m) == \A n \in 0..30 : Bit(v, n) = Bit(a, n) * Bit(m, n)

C5_GammaMasked ==
    (calls # << >> /\ Last(calls).op = "set_gamma") =>
        LET c == Last(calls)
            e == CallEvents(c)
        IN  /\ c.ret = 0
            /\ Len(e) = 2
            /\ \A i \in 0..1 :
                /\ IsWrite(e[i + 1])
                /\ e[i + 1].cmd = \hE0 + i
                /\ Len(e[i + 1].par) = 14
                /\ \A j \in 0..13 :
                    IsAndOf(e[i + 1].par[j + 1], c.arg[14 * i + j + 1], gamma_par_mask[j + 1])
            /\ Len(curves) = 28
            /\ \A i \in 0..1 : \A j \in 0..13 :
                IsAndOf(curves[14 * i + j + 1], c.arg[14 * i + j + 1], gamma_par_mask[j + 1])

\* a call whose buffer held 0xFF in a column masked to 0x3F, and values beyond a byte
C5_Witness ==
    /\ calls # << >>
    /\ Last(calls).op = "set_gamma"
    /\ Last(calls).arg[2] = \hFF
    /\ Last(calls).arg[28] = \h7FFFFFFF
    /\ CallEvents(Last(calls))[1].par[2] = \h3F
    /\ curves[28] = \h3F

(***************************************************************************)
(* C6.  init_display first drives the reset line and waits, then emits its *)
(* register writes once each in the fixed order 0x36, 0x3A, 0xB2, 0xB7,    *)
(* 0xBB, 0xC0, 0xC2, 0xC3, 0xC4, 0xC6, 0xD0, 0xE0, 0xE1, 0xE4, 0x21, 0x11, *)
(* 0x29 with their fixed parameter bytes, and returns 0 whatever the       *)
(* device context.                                                         *)
(***************************************************************************)
InitCommandOrder ==
    << \h36, \h3A, \hB2, \hB7, \hBB, \hC0, \hC2, \hC3, \hC4, \hC6, \hD0,
       \hE0, \hE1, \hE4, \h21, \h11, \h29 >>

InitParameterBytes ==
    << << 0 >>, << 5 >>, << 11, 11, 0, 51, 53 >>, << 17 >>, << 53 >>, << 44 >>,
       << 1 >>, << 13 >>, << 32 >>, << 19 >>, << 164, 161 >>,
       << 240, 6, 11, 10, 9, 38, 41, 51, 65, 24, 22, 21, 41, 45 >>,
       << 240, 4, 8, 8, 7, 3, 40, 50, 64, 59, 25, 24, 42, 46 >>,
       << 37, 0, 0 >>, << >>, << >>, << >> >>

InitCalls == { n \in 1..Len(calls) : calls[n].op = "init_display" }

C6_InitSequence ==
    \A n \in InitCalls :
        LET e == CallEvents(calls[n])
            w == SelectSeq(e, IsWrite)
        IN  /\ calls[n].ret = 0
            /\ Len(e) >= 3
            /\ e[1].ev = "reset"
            /\ e[2].ev = "mdelay"
            /\ \A k \in 2..Len(e) : e[k].ev # "reset"
            /\ Len(w) = Len(InitCommandOrder)
            /\ \A k \in 1..Len(w) :
                /\ w[k].cmd = InitCommandOrder[k]
                /\ w[k].par = InitParameterBytes[k]

\* an initialization run on a context whose rotation set_var would reject
C6_Witness ==
    /\ calls # << >>
    /\ Last(calls).op = "init_display"
    /\ rotate = 45
    /\ bgr = TRUE

(***************************************************************************)
(* C7.  (as claimed) In init_display every register write is surrounded by *)
(* a settle delay: a delay separates the reset from the first write, any   *)
(* two consecutive writes, and follows the last write.                     *)
(***************************************************************************)
C7_EveryWriteSurrounded ==
    \A n \in InitCalls :
        LET e == CallEvents(calls[n])
        IN  /\ e[Len(e)].ev = "mdelay"
            /\ \A k \in 1..(Len(e) - 1) :
                (e[k].ev \in {"reset", "write_reg"}) => e[k + 1].ev = "mdelay"

(***************************************************************************)
(* C7, amended.  init_display delays at three places only: 50 ms after the *)
(* reset, 120 ms after sleep-out (0x11) and 200 ms after display-on        *)
(* (0x29); every other register write is followed directly by the next    *)
(* register write.                                                         *)
(***************************************************************************)
C7_DelaysOnlyAtThreePlaces ==
    \A n \in InitCalls :
        LET e == CallEvents(calls[n])
            DelayAfter(k) ==
                CASE e[k].ev = "reset"                    -> 50
                  [] IsWrite(e[k]) /\ e[k].cmd = \h11     -> 120
                  [] IsWrite(e[k]) /\ e[k].cmd = \h29     -> 200
                  [] OTHER                                -> 0
        IN  /\ e[1].ev = "reset"
            /\ \A k \in 1..Len(e) :
                e[k].ev # "mdelay" =>
                    IF DelayAfter(k) > 0
                    THEN k < Len(e) /\ e[k + 1] = [ev |-> "mdelay", ms |-> DelayAfter(k)]
                    ELSE k < Len(e) /\ IsWrite(e[k + 1])
            /\ \A k \in 2..Len(e) : e[k].ev = "mdelay" => e[k - 1].ev # "mdelay"

C7_Witness ==
    \E n \in InitCalls :
        LET e == CallEvents(calls[n])
        IN  \E k \in 1..(Len(e) - 1) : IsWrite(e[k]) /\ IsWrite(e[k + 1])

(***************************************************************************)
(* C8.  blank(on) emits exactly one register write without parameters,     *)
(* 0x28 (display off) for true and 0x29 (display on) for false, returns 0  *)
(* and does nothing else: no reset, no delay, no other write, and the      *)
(* device context is unchanged.                                            *)
(***************************************************************************)
C8_BlankOneWrite ==
    [][ \A on \in BOOLEAN :
          ( /\ Len(calls') = Len(calls) + 1
            /\ Last(calls').op = "blank"
            /\ Last(calls').arg = <<on>> )
          => ( /\ trace' = Append(trace, [ev  |-> "write_reg",
                                          cmd |-> IF on THEN \h28 ELSE \h29,
                                          par |-> << >>])
               /\ Last(calls').ret = 0
               /\ UNCHANGED <<rotate, bgr, xres, yres, gamma, curves>> ) ]_vars

C8_Witness ==
    /\ \E n \in 1..Len(calls) : calls[n].op = "blank" /\ calls[n].arg[1] = TRUE
    /\ \E n \in 1..Len(calls) : calls[n].op = "blank" /\ calls[n].arg[1] = FALSE

(***************************************************************************)
(* C9.  In the registered configuration gamma programming is disabled, so  *)
(* over any sequence of host invocations set_gamma never runs and the      *)
(* panel keeps the default curves of initialization: every write to 0xE0   *)
(* or 0xE1 in the trace is one init_display emitted, with its fixed 14     *)
(* parameter bytes.                                                        *)
(***************************************************************************)
DefaultCurve(cmd) ==
    IF cmd = \hE0
    THEN << 240, 6, 11, 10, 9, 38, 41, 51, 65, 24, 22, 21, 41, 45 >>
    ELSE << 240, 4, 8, 8, 7, 3, 40, 50, 64, 59, 25, 24, 42, 46 >>

GammaWrites == { k \in 1..Len(trace) : IsWrite(trace[k]) /\ trace[k].cmd \in {\hE0, \hE1} }

LastWrite(tr, cmd) ==
    LET idx == { k \in 1..Len(tr) : IsWrite(tr[k]) /\ tr[k].cmd = cmd }
    IN  IF idx = {} THEN << >>
        ELSE << tr[CHOOSE k \in idx : \A l \in idx : l <= k].par >>

DisplayState(tr) ==
    LET idx == { k \in 1..Len(tr) : IsWrite(tr[k]) /\ tr[k].cmd \in {\h28, \h29} }
    IN  IF idx = {} THEN "unknown"
        ELSE IF tr[CHOOSE k \in idx : \A l \in idx : l <= k].cmd = \h29 THEN "on"
        ELSE "off"

\* (a register no write of the trace names holds none in any order)
Written(tr) == { tr[k].cmd : k \in { l \in 1..Len(tr) : IsWrite(tr[l]) } }

RegState(tr) ==
    [reg |-> [cmd \in Written(tr) |-> LastWrite(tr, cmd)], display |-> DisplayState(tr)]

\* the last two calls succeeded; the trace had they run in the other order
LastTwoSucceeded ==
    /\ Len(calls) >= 2
    /\ calls[Len(calls) - 1].ret = 0
    /\ calls[Len(calls)].ret = 0

SwappedTrace ==
    LET a == calls[Len(calls) - 1]
        b == calls[Len(calls)]
    IN  SubSeq(trace, 1, a.from) \o CallEvents(b) \o CallEvents(a)

(***************************************************************************)
(* C10.  (as claimed) The entry points are order-insensitive: any two      *)
(* successful calls among init_display, set_var and blank leave the same   *)
(* register state in either order.                                         *)
(***************************************************************************)
C10_OrderInsensitive ==
    LastTwoSucceeded => RegState(trace) = RegState(SwappedTrace)

(***************************************************************************)
(* C10, amended.  Two successful calls leave the same register state in    *)
(* either order except when both write a register with different values,   *)
(* where the later call wins: init_display and blank(true) (display on or  *)
(* off), init_display and a set_var whose rotation is not 0 or whose       *)
(* colour order is BGR (register 0x36), blank(true) and blank(false), and  *)
(* two set_var calls that differ in rotation or colour order.  In          *)
(* particular set_var and blank are order-insensitive with each other.     *)
(***************************************************************************)
OrderSensitive(a, b) ==
    \/ a.op = "init_display" /\ b.op = "blank" /\ b.arg[1] = TRUE
    \/ a.op = "init_display" /\ b.op = "set_var" /\ <<b.arg[1], b.arg[2]>> # <<0, FALSE>>
    \/ a.op = "blank" /\ b.op = "blank" /\ a.arg[1] # b.arg[1]
    \/ a.op = "set_var" /\ b.op = "set_var" /\ <<a.arg[1], a.arg[2]>> # <<b.arg[1], b.arg[2]>>

C10_LaterWriteWins ==
    LastTwoSucceeded =>
        LET a == calls[Len(calls) - 1]
            b == calls[Len(calls)]
        IN  (RegState(trace) = RegState(SwappedTrace))
                <=> ~(OrderSensitive(a, b) \/ OrderSensitive(b, a))

\* a set_var and a blank, run after an initialization
C10_Witness ==
    /\ Len(calls) >= 3
    /\ LastTwoSucceeded
    /\ {calls[Len(calls) - 1].op, calls[Len(calls)].op} = {"set_var", "blank"}
    /\ RegState(trace) = RegState(SwappedTrace)

====
